---- MODULE Spec2Model ----
(***************************************************************************)
(* Model of Programming/Projekti_1/main.c: a time-triggered task scheduler *)
(* on an AVR (16-bit int) that samples a potentiometer through the ADC,    *)
(* maps the sample to the compare value of the buzzer's PWM, and reports   *)
(* over the USART.                                                         *)
(*                                                                         *)
(* Interrupt handlers run with interrupts disabled, so each handler is one *)
(* atomic action.  The main loop is interruptible: where a claim turns on  *)
(* that, the main-loop code is split at its accesses to shared variables.  *)
(***************************************************************************)
EXTENDS Integers, Sequences, FiniteSets, TLC

VARIABLES
    task_list,          \* the task table: slot -> [task_number, delay, interval, run]
    frequency_control,  \* uint16_t frequency_control
    OCR1A,              \* compare register of timer 1 (buzzer PWM)
    conversion_result,  \* volatile uint16_t conversion_result
    ADC,                \* the ADC data register: raw result of the last conversion
    ADSC,               \* ADCSRA[ADSC]: 1 while a conversion is in progress
    tx,                 \* characters written to UDR0 by the current/last report
    pc,                 \* position of the main loop
    str,                \* task_2's local buffer str[0..i-1]
    reg,                \* register holding the loaded conversion_result in task_2
    ticks,              \* observer: calls of update() so far
    sched_obs,          \* observer: per slot, when update() marked it
    last_op,            \* observer: the handler or function that acted last
    invoked,            \* observer: task bodies called by the last task_manager() pass
    dispatched,         \* observer: task_manager() has been called
    report_obs,         \* observer: what the reporting task saw and sent
    overflows,          \* uint16_t overflows: TIMER2 overflows counted since the last tick
    I_flag,             \* SREG[I]: 1 while interrupts are enabled
    SMCR,               \* sleep mode control register: [se: sleep enable, sm: sleep mode]
    PD2,                \* level of the wake/sleep pin PD2 (PCINT18)
    PCIF,               \* pin change interrupt flag 2: 1 while PCINT2_vect is pending
    TOV2,               \* timer 2 overflow flag: 1 while TIMER2_OVF_vect is pending
    ADIF,               \* ADC interrupt flag: 1 while ADC_vect is pending
    tm_index,           \* uint8_t index of task_manager(): the slot being dispatched
    tick_obs,           \* observer: TIMER2 overflow interrupts against calls of update()
    sleep_obs           \* observer: what the main loop read and how sleep was left

vars == << task_list, frequency_control, OCR1A, conversion_result, ADC, ADSC,
           tx, pc, str, reg, ticks, sched_obs, last_op, invoked, dispatched,
           report_obs, overflows, I_flag, SMCR, PD2, PCIF, TOV2, ADIF, tm_index,
           tick_obs, sleep_obs >>

\* the timer tick counter, the interrupt and sleep state of the MCU, the
\* position of the dispatcher's loop
mcu == << overflows, I_flag, SMCR, PD2, PCIF, TOV2, ADIF, tm_index, tick_obs, sleep_obs >>

----------------------------------------------------------------------------
(* Program constants *)

TASK_MAX == 2
ADC_TASK == 1
FREQ_TASK == 2
InitialFrequency == 283
SrcMin == 50
SrcMax == 1000
DestMin == 124
DestMax == 2499
AdcTop == 1023
AdcInterval == 100
FreqDelay == 50
FreqInterval == 100
OVF_MAX == 156

Slots == 0 .. (TASK_MAX - 1)

\* const char *msg = "Frequency is ";  as ASCII codes
msg == << 70, 114, 101, 113, 117, 101, 110, 99, 121, 32, 105, 115, 32 >>

\* const char *end_msg = " Hz\r\n";  as ASCII codes
end_msg == << 32, 72, 122, 13, 10 >>

----------------------------------------------------------------------------
(* Integer widths.  On the AVR int and unsigned int are 16 bits wide. *)

U16(x) == x % 65536

\* conversion to int8_t (avr-gcc: modulo 2^8)
ToInt8(x) == ((x + 128) % 256) - 128

----------------------------------------------------------------------------
(* ISR(ADC_vect) *)

\* the clamp of the raw result into 50..1000
Clamp(r) == IF r < SrcMin THEN SrcMin ELSE IF r > SrcMax THEN SrcMax ELSE r

\* the mapping with the offset left out
FreqMapNoOffset(c) == U16(U16((DestMax - DestMin) * c) \div 1000)

\* 124 + ((2499-124)*conversion_result) / 1000 : (2499-124) is an int,
\* conversion_result an unsigned int, so the product, the quotient and the
\* sum are unsigned 16-bit.
FreqMap(c) == U16(DestMin + U16(U16((DestMax - DestMin) * c) \div 1000))

----------------------------------------------------------------------------
(* The task table *)

\* the table as static storage leaves it: every field zero
ZeroTable == [s \in Slots |-> [task_number |-> 0, delay |-> 0, interval |-> 0, run |-> 0]]

\* a registration that stores the interval as the delay and the delay as the
\* interval
add_task_swapped(tl, number, task_number, delay, interval) ==
    [tl EXCEPT ![number] = [@ EXCEPT !.task_number = task_number,
                                     !.delay = interval,
                                     !.interval = delay]]

add_task(tl, number, task_number, delay, interval) ==
    [tl EXCEPT ![number] = [@ EXCEPT !.task_number = task_number,
                                     !.delay = delay,
                                     !.interval = interval]]

\* one iteration of the loop of init_tasks()
InitTasksIter(tl, index) ==
    add_task(add_task([tl EXCEPT ![index].task_number = 0],
                      0, ADC_TASK, 0, AdcInterval),
             1, FREQ_TASK, FreqDelay, FreqInterval)

init_tasks == InitTasksIter(InitTasksIter(ZeroTable, 0), 1)

----------------------------------------------------------------------------
(* update(): the body of the loop for one slot, and the loop *)

\* a slot update that counts the delay down before it tests it
UpdateSlotEarly(t) ==
    IF t.task_number # 0
    THEN IF t.delay <= 1
         THEN [t EXCEPT !.run = ToInt8(@ + 1),
                        !.delay = IF t.interval # 0 THEN t.interval ELSE 0]
         ELSE [t EXCEPT !.delay = @ - 1]
    ELSE t

UpdateSlot(t) ==
    IF t.task_number # 0
    THEN IF t.delay = 0
         THEN [t EXCEPT !.run = ToInt8(@ + 1),
                        !.delay = IF t.interval # 0 THEN t.interval ELSE @]
         ELSE [t EXCEPT !.delay = @ - 1]
    ELSE t

update(tl) == [s \in Slots |-> UpdateSlot(tl[s])]

----------------------------------------------------------------------------
(* task_1(), task_2() and task_manager(), each run to completion.  A run  *)
(* acts on the record m of what the main loop touches:                    *)
(*   m.tl table, m.adsc ADSC, m.conv conversion_result, m.freq            *)
(*   frequency_control, m.tx sent chars, m.invoked the bodies called, in  *)
(*   order.                                                               *)

\* task_1(): select channel 0, start a conversion
task_1(m) == [m EXCEPT !.adsc = 1]

\* the digit without the offset of '0'
DigitCharRaw(c) == c % 10

\* str[i++] = (conversion_result % 10) + '0'
DigitChar(c) == (c % 10) + 48

\* the do-while loop of task_2(): the digits of c, least significant first
RECURSIVE ExtractDigits(_, _)
ExtractDigits(c, s) ==
    LET s2 == Append(s, DigitChar(c))
        c2 == c \div 10
    IN  IF c2 > 0 THEN ExtractDigits(c2, s2) ELSE s2

\* a reversal that leaves the string as it is
ReverseNot(s) == s

\* the reversal loop of task_2()
Reverse(s) == [j \in 1 .. Len(s) |-> s[Len(s) + 1 - j]]

\* a task_2() that renders frequency_control, and leaves that at 0
task_2_of_frequency(m) ==
    [m EXCEPT !.tx = msg \o Reverse(ExtractDigits(m.freq, << >>)) \o end_msg,
              !.freq = 0]

\* task_2(): the prefix, the digits of conversion_result, the suffix; the
\* loop leaves conversion_result at 0
task_2(m) ==
    [m EXCEPT !.tx = msg \o Reverse(ExtractDigits(m.conv, << >>)) \o end_msg,
              !.conv = 0]

\* a dispatch that clears run instead of counting it down
DispatchSlotClear(m, index) ==
    LET t == m.tl[index]
    IN  IF t.task_number # 0 /\ t.run > 0
        THEN LET b == IF t.task_number = ADC_TASK THEN task_1(m)
                      ELSE IF t.task_number = FREQ_TASK THEN task_2(m)
                      ELSE m
                 called == IF t.task_number \in {ADC_TASK, FREQ_TASK}
                           THEN << [slot |-> index, task |-> t.task_number] >>
                           ELSE << >>
             IN  [b EXCEPT !.tl[index].run = 0,
                           !.invoked = @ \o called]
        ELSE m

\* the body of the loop of task_manager() for one slot
DispatchSlot(m, index) ==
    LET t == m.tl[index]
    IN  IF t.task_number # 0 /\ t.run > 0
        THEN LET b == IF t.task_number = ADC_TASK THEN task_1(m)
                      ELSE IF t.task_number = FREQ_TASK THEN task_2(m)
                      ELSE m
                 called == IF t.task_number \in {ADC_TASK, FREQ_TASK}
                           THEN << [slot |-> index, task |-> t.task_number] >>
                           ELSE << >>
             IN  [b EXCEPT !.tl[index].run = ToInt8(@ - 1),
                           !.invoked = @ \o called]
        ELSE m

\* for(index = 0; index < TASK_MAX; index++)
RECURSIVE DispatchFrom(_, _)
DispatchFrom(m, index) ==
    IF index < TASK_MAX THEN DispatchFrom(DispatchSlot(m, index), index + 1) ELSE m

task_manager(m) == DispatchFrom(m, 0)

----------------------------------------------------------------------------
(* Bounds of the model *)

MaxDelay == 2          \* initial delays 0..MaxDelay are registered
MaxInterval == 3       \* intervals 0..MaxInterval are registered
Periods == 2           \* ticks run on for this many periods after the first run
MaxBacklog == 3        \* the dispatcher falls at most this many runs behind

\* raw conversion results tried where the handler interleaves with the report
RawSamples == {0, 123, 500, AdcTop}

----------------------------------------------------------------------------
(* Initial states *)

MainRecord ==
    [tl |-> task_list, adsc |-> ADSC, conv |-> conversion_result,
     freq |-> frequency_control, tx |-> tx, invoked |-> << >>]

SchedObsInit(tl) ==
    [s \in Slots |-> [d0 |-> tl[s].delay, marks |-> 0, first |-> 0, last |-> 0,
                      gap |-> 0, bodies |-> 0, drained |-> TRUE]]

\* prev_tx: what the report before the current one sent; entry: the value of
\* conversion_result when the current report began; adc_in_cur: ADC_vect
\* has run since the current report began; adc_in_prev: it ran between the
\* beginning of the report before and the beginning of the current one
ReportObsInit ==
    [prev_tx |-> << >>, entry |-> 0, adc_in_cur |-> FALSE, adc_in_prev |-> FALSE]

\* irqs: runs of TIMER2_OVF_vect so far; since: those after the last one that
\* called update(); gap: runs from one call of update() to the next, for the
\* last two calls (0: fewer than two calls); called: the last run called it
TickObsInit == [irqs |-> 0, since |-> 0, gap |-> 0, called |-> FALSE]

\* read: the level the main loop last read from PD2 (-1: none yet);
\* table: the task table when the CPU last halted; woke_by: the interrupt that
\* last ended a halt; raised: a pin change came between cli() and the halt
SleepObsInit ==
    [read |-> -1, table |-> << >>, woke_by |-> "none", raised |-> FALSE]

\* the MCU after setup_system() with PD2 at the level pin: counter 0,
\* interrupts enabled by sei(), no sleep mode set, nothing pending
McuInitAt(pin) ==
    /\ overflows = 0
    /\ I_flag = 1
    /\ SMCR = [se |-> 0, sm |-> "idle"]
    /\ PD2 = pin
    /\ PCIF = 0
    /\ TOV2 = 0
    /\ ADIF = 0
    /\ tm_index = 0
    /\ tick_obs = TickObsInit
    /\ sleep_obs = SleepObsInit

\* the MCU after setup_system(), the button not pressed
McuInit == McuInitAt(1)

\* the state main() starts its loop in, with the table tl
InitWith(tl) ==
    /\ task_list = tl
    /\ frequency_control = InitialFrequency
    /\ OCR1A = InitialFrequency
    /\ conversion_result = 0
    /\ ADC = 0
    /\ ADSC = 0
    /\ tx = << >>
    /\ pc = "idle"
    /\ str = << >>
    /\ reg = 0
    /\ ticks = 0
    /\ sched_obs = SchedObsInit(tl)
    /\ last_op = "init"
    /\ invoked = << >>
    /\ dispatched = FALSE
    /\ report_obs = ReportObsInit
    /\ McuInit

\* what one slot can be registered as: nothing, or a delay and an interval
SlotChoices == {<< >>} \cup {<< d, k >> : d \in 0 .. MaxDelay, k \in 0 .. MaxInterval}

Register(tl, number, task_number, c) ==
    IF c = << >> THEN tl ELSE add_task(tl, number, task_number, c[1], c[2])

\* the tables add_task() builds from small delays and intervals, and the
\* table of init_tasks()
SchedTables ==
    {init_tasks} \cup
    { Register(Register(ZeroTable, 0, ADC_TASK, c0), 1, FREQ_TASK, c1) :
        c0 \in SlotChoices, c1 \in SlotChoices }

----------------------------------------------------------------------------
(* The conversion: task_1() starts it, the hardware completes it with any *)
(* raw result and raises ADC_vect.                                        *)

\* ISR(ADC_vect) with the data register reading r
AdcIsr(r) ==
    /\ ADSC = 1
    /\ ADC' = r
    /\ ADSC' = 0
    /\ conversion_result' = Clamp(r)
    /\ frequency_control' = FreqMap(Clamp(r))
    /\ OCR1A' = FreqMap(Clamp(r))
    /\ last_op' = "ADC_vect"
    /\ report_obs' = [report_obs EXCEPT !.adc_in_cur = TRUE]
    /\ UNCHANGED << task_list, tx, pc, str, reg, ticks, sched_obs, invoked, dispatched, mcu >>

AdcComplete == \E r \in 0 .. AdcTop : AdcIsr(r)

AdcCompleteSampled == \E r \in RawSamples : AdcIsr(r)

\* task_1() called from the main loop
StartConversion ==
    /\ pc = "idle"
    /\ ADSC' = task_1(MainRecord).adsc
    /\ last_op' = "task_1"
    /\ UNCHANGED << task_list, frequency_control, OCR1A, conversion_result, ADC,
                    tx, pc, str, reg, ticks, sched_obs, invoked, dispatched,
                    report_obs, mcu >>

InitProgram == InitWith(init_tasks)

NextADC == StartConversion \/ AdcComplete

SpecADC == InitProgram /\ [][NextADC]_vars

----------------------------------------------------------------------------
(* The scheduler: update() on every tick, task_manager() from the main    *)
(* loop, on any table add_task() can build.                               *)

MaxOf(S) == CHOOSE x \in S : \A y \in S : y <= x

\* ticks modelled for a table: the longest first delay, then Periods periods
TickHorizon ==
    MaxOf({ sched_obs[s].d0 + Periods * (task_list[s].interval + 1) : s \in Slots }) + 1

\* what the observer notes of one slot when update() takes tl to tl2 at tick n
ObserveUpdate(o, t, t2, n) ==
    IF t2.run # t.run
    THEN [o EXCEPT !.marks = @ + 1,
                   !.first = IF o.marks = 0 THEN n ELSE @,
                   !.gap = IF o.marks = 0 THEN 0 ELSE n - o.last,
                   !.last = n,
                   !.drained = @ /\ t.run = 0]
    ELSE [o EXCEPT !.drained = @ /\ t.run = 0]

\* the number of entries of the sequence q that name slot s
RECURSIVE CallsOf(_, _)
CallsOf(q, s) ==
    IF q = << >> THEN 0
    ELSE (IF Head(q).slot = s THEN 1 ELSE 0) + CallsOf(Tail(q), s)

\* a call of update(), as the rest of the program sees it
UpdateEffect ==
    /\ task_list' = update(task_list)
    /\ ticks' = ticks + 1
    /\ sched_obs' = [s \in Slots |->
                       ObserveUpdate(sched_obs[s], task_list[s], task_list'[s], ticks + 1)]
    /\ last_op' = "update"
    /\ invoked' = << >>
    /\ UNCHANGED << frequency_control, OCR1A, conversion_result, ADC, ADSC, tx, pc,
                    str, reg, dispatched, report_obs >>

\* a call of update()
UpdateCall == UpdateEffect /\ UNCHANGED mcu

\* a tick while the dispatcher is at most MaxBacklog runs behind
Update ==
    /\ ticks < TickHorizon
    /\ \A s \in Slots : task_list[s].run < MaxBacklog
    /\ UpdateCall

\* one pass of task_manager(), with the task bodies it calls
TaskManager ==
    /\ pc = "idle"
    /\ LET m == task_manager(MainRecord)
       IN  /\ task_list' = m.tl
           /\ ADSC' = m.adsc
           /\ conversion_result' = m.conv
           /\ frequency_control' = m.freq
           /\ tx' = m.tx
           /\ invoked' = m.invoked
           /\ sched_obs' = [s \in Slots |->
                  [sched_obs[s] EXCEPT !.bodies = @ + CallsOf(m.invoked, s)]]
    /\ last_op' = "task_manager"
    /\ dispatched' = TRUE
    /\ UNCHANGED << OCR1A, ADC, pc, str, reg, ticks, report_obs, mcu >>

InitSched == \E tl \in SchedTables : InitWith(tl)

NextSched == Update \/ TaskManager

SpecSched == InitSched /\ [][NextSched]_vars

----------------------------------------------------------------------------
(* The scheduler with a dispatcher that may fall behind without limit: one *)
(* task of interval 1, the fastest periodic task, in either slot.          *)

BacklogTicks == 256    \* calls of update() modelled

BacklogTables ==
    { Register(ZeroTable, 0, ADC_TASK, << 0, 1 >>),
      Register(ZeroTable, 1, FREQ_TASK, << 0, 1 >>) }

\* a tick, however far the dispatcher is behind
UpdateBehind ==
    /\ ticks < BacklogTicks
    /\ UpdateCall

InitBacklog == \E tl \in BacklogTables : InitWith(tl)

NextBacklog == UpdateBehind \/ TaskManager

SpecBacklog == InitBacklog /\ [][NextBacklog]_vars

----------------------------------------------------------------------------
(* The reporting task against the conversion: task_2() split at its       *)
(* accesses to conversion_result, ADC_vect free to run between them.      *)

\* entry of task_2(), send_string_direct(msg), i = 0
T2Start ==
    /\ pc = "idle"
    /\ tx' = msg
    /\ str' = << >>
    /\ pc' = "t2_digit"
    /\ last_op' = "task_2"
    /\ report_obs' = [prev_tx |-> tx, entry |-> conversion_result,
                      adc_in_cur |-> FALSE, adc_in_prev |-> report_obs.adc_in_cur]
    /\ UNCHANGED << task_list, frequency_control, OCR1A, conversion_result, ADC, ADSC,
                    reg, ticks, sched_obs, invoked, dispatched, mcu >>

\* str[i++] = (conversion_result % 10) + '0';
T2Digit ==
    /\ pc = "t2_digit"
    /\ str' = Append(str, DigitChar(conversion_result))
    /\ pc' = "t2_load"
    /\ last_op' = "task_2"
    /\ UNCHANGED << task_list, frequency_control, OCR1A, conversion_result, ADC, ADSC,
                    tx, reg, ticks, sched_obs, invoked, dispatched, report_obs, mcu >>

\* conversion_result /= 10;  the read
T2Load ==
    /\ pc = "t2_load"
    /\ reg' = conversion_result
    /\ pc' = "t2_store"
    /\ last_op' = "task_2"
    /\ UNCHANGED << task_list, frequency_control, OCR1A, conversion_result, ADC, ADSC,
                    tx, str, ticks, sched_obs, invoked, dispatched, report_obs, mcu >>

\* conversion_result /= 10;  the write
T2Store ==
    /\ pc = "t2_store"
    /\ conversion_result' = reg \div 10
    /\ pc' = "t2_test"
    /\ last_op' = "task_2"
    /\ UNCHANGED << task_list, frequency_control, OCR1A, ADC, ADSC,
                    tx, str, reg, ticks, sched_obs, invoked, dispatched, report_obs, mcu >>

\* the loop test leaving the last digit behind
T2TestEarly ==
    /\ pc = "t2_test"
    /\ pc' = IF conversion_result > 9 THEN "t2_digit" ELSE "t2_send"
    /\ last_op' = "task_2"
    /\ UNCHANGED << task_list, frequency_control, OCR1A, conversion_result, ADC, ADSC,
                    tx, str, reg, ticks, sched_obs, invoked, dispatched, report_obs, mcu >>

\* while (conversion_result > 0);
T2Test ==
    /\ pc = "t2_test"
    /\ pc' = IF conversion_result > 0 THEN "t2_digit" ELSE "t2_send"
    /\ last_op' = "task_2"
    /\ UNCHANGED << task_list, frequency_control, OCR1A, conversion_result, ADC, ADSC,
                    tx, str, reg, ticks, sched_obs, invoked, dispatched, report_obs, mcu >>

\* the reversal, send_string_direct(str), send_string_direct(end_msg), return
T2Send ==
    /\ pc = "t2_send"
    /\ tx' = tx \o Reverse(str) \o end_msg
    /\ str' = << >>
    /\ reg' = 0
    /\ pc' = "idle"
    /\ last_op' = "task_2"
    /\ UNCHANGED << task_list, frequency_control, OCR1A, conversion_result, ADC, ADSC,
                    ticks, sched_obs, invoked, dispatched, report_obs, mcu >>

NextReport ==
    \/ StartConversion
    \/ AdcCompleteSampled
    \/ T2Start
    \/ T2Digit
    \/ T2Load
    \/ T2Store
    \/ T2Test
    \/ T2Send

SpecReport == InitProgram /\ [][NextReport]_vars


----------------------------------------------------------------------------
(* The formatting of task_2() as a function of the value it is given: one *)
(* uninterrupted call on each value the frequency mapping can name.       *)

InitFormat ==
    /\ task_list = init_tasks
    /\ frequency_control = InitialFrequency
    /\ OCR1A = InitialFrequency
    /\ conversion_result \in DestMin .. DestMax
    /\ ADC = 0
    /\ ADSC = 0
    /\ tx = << >>
    /\ pc = "idle"
    /\ str = << >>
    /\ reg = 0
    /\ ticks = 0
    /\ sched_obs = SchedObsInit(init_tasks)
    /\ last_op = "init"
    /\ invoked = << >>
    /\ dispatched = FALSE
    /\ report_obs = ReportObsInit
    /\ McuInit

NextFormat ==
    \/ T2Start
    \/ T2Digit
    \/ T2Load
    \/ T2Store
    \/ T2Test
    \/ T2Send

SpecFormat == InitFormat /\ [][NextFormat]_vars


----------------------------------------------------------------------------
(* The tick generator: ISR(TIMER2_OVF_vect) on every overflow of timer 2, *)
(* task_manager() from the main loop.                                     *)

TickIrqs == 320        \* runs of TIMER2_OVF_vect modelled

\* ISR(TIMER2_OVF_vect): if(overflows++ >= OVF_MAX) { update(); overflows = 0; }
Timer2Vect ==
    IF overflows >= OVF_MAX
    THEN /\ UpdateEffect
         /\ overflows' = 0
         /\ tick_obs' = [irqs |-> tick_obs.irqs + 1, since |-> 0,
                         gap |-> IF ticks = 0 THEN 0 ELSE tick_obs.since + 1,
                         called |-> TRUE]
    ELSE /\ overflows' = U16(overflows + 1)
         /\ tick_obs' = [tick_obs EXCEPT !.irqs = @ + 1, !.since = @ + 1, !.called = FALSE]
         /\ last_op' = "TIMER2_OVF_vect"
         /\ UNCHANGED << task_list, frequency_control, OCR1A, conversion_result, ADC,
                         ADSC, tx, pc, str, reg, ticks, sched_obs, invoked, dispatched,
                         report_obs >>

\* an overflow of timer 2, served at once
Timer2Overflow ==
    /\ tick_obs.irqs < TickIrqs
    /\ Timer2Vect
    /\ UNCHANGED << I_flag, SMCR, PD2, PCIF, TOV2, ADIF, tm_index, sleep_obs >>

NextTick == Timer2Overflow \/ TaskManager

SpecTick == InitProgram /\ [][NextTick]_vars


----------------------------------------------------------------------------
(* The dispatcher against the tick: task_manager() split at its accesses  *)
(* to run, update() free to run between them.                             *)

\* the switch of task_manager(): the body of the task in slot number
CallBody(m, number) ==
    LET t == m.tl[number]
        b == IF t.task_number = ADC_TASK THEN task_1(m)
             ELSE IF t.task_number = FREQ_TASK THEN task_2(m)
             ELSE m
        called == IF t.task_number \in {ADC_TASK, FREQ_TASK}
                  THEN << [slot |-> number, task |-> t.task_number] >>
                  ELSE << >>
    IN  [b EXCEPT !.invoked = @ \o called]

\* entry of task_manager(), index = 0
TmEnter ==
    /\ pc = "idle"
    /\ tm_index' = 0
    /\ pc' = "tm_test"
    /\ invoked' = << >>
    /\ dispatched' = TRUE
    /\ last_op' = "task_manager"
    /\ UNCHANGED << task_list, frequency_control, OCR1A, conversion_result, ADC, ADSC,
                    tx, str, reg, ticks, sched_obs, report_obs, overflows, I_flag, SMCR,
                    PD2, PCIF, TOV2, ADIF, tick_obs, sleep_obs >>

\* index < TASK_MAX; the test of task_number and run; the body of the task
TmTest ==
    /\ pc = "tm_test"
    /\ IF tm_index >= TASK_MAX
       THEN /\ pc' = "tm_done"
            /\ UNCHANGED << ADSC, conversion_result, frequency_control, tx, invoked,
                            sched_obs, tm_index >>
       ELSE IF task_list[tm_index].task_number # 0 /\ task_list[tm_index].run > 0
       THEN LET m == CallBody([MainRecord EXCEPT !.invoked = invoked], tm_index)
            IN  /\ ADSC' = m.adsc
                /\ conversion_result' = m.conv
                /\ frequency_control' = m.freq
                /\ tx' = m.tx
                /\ invoked' = m.invoked
                /\ sched_obs' = [sched_obs EXCEPT ![tm_index].bodies =
                                    @ + (Len(m.invoked) - Len(invoked))]
                /\ pc' = "tm_load"
                /\ UNCHANGED tm_index
       ELSE /\ tm_index' = tm_index + 1
            /\ UNCHANGED << ADSC, conversion_result, frequency_control, tx, invoked,
                            sched_obs, pc >>
    /\ last_op' = "task_manager"
    /\ UNCHANGED << task_list, OCR1A, ADC, str, reg, ticks,
                    dispatched, report_obs, overflows, I_flag, SMCR, PD2, PCIF, TOV2,
                    ADIF, tick_obs, sleep_obs >>

\* task_list[index].run -= 1;  the read
TmLoad ==
    /\ pc = "tm_load"
    /\ reg' = task_list[tm_index].run
    /\ pc' = "tm_store"
    /\ last_op' = "task_manager"
    /\ UNCHANGED << task_list, frequency_control, OCR1A, conversion_result, ADC, ADSC,
                    tx, str, ticks, sched_obs, invoked, dispatched, report_obs, mcu >>

\* task_list[index].run -= 1;  the write, index++
TmStore ==
    /\ pc = "tm_store"
    /\ task_list' = [task_list EXCEPT ![tm_index].run = ToInt8(reg - 1)]
    /\ reg' = 0
    /\ tm_index' = tm_index + 1
    /\ pc' = "tm_test"
    /\ last_op' = "task_manager"
    /\ UNCHANGED << frequency_control, OCR1A, conversion_result, ADC, ADSC, tx, str,
                    ticks, sched_obs, invoked, dispatched, report_obs, overflows, I_flag,
                    SMCR, PD2, PCIF, TOV2, ADIF, tick_obs, sleep_obs >>

\* task_manager() has returned and is called again
TmAgain ==
    /\ pc = "tm_done"
    /\ pc' = "idle"
    /\ last_op' = "task_manager"
    /\ UNCHANGED << task_list, frequency_control, OCR1A, conversion_result, ADC, ADSC,
                    tx, str, reg, ticks, sched_obs, invoked, dispatched, report_obs, mcu >>

NextPreempt ==
    \/ Update
    \/ TmEnter
    \/ TmTest
    \/ TmLoad
    \/ TmStore
    \/ TmAgain

SpecPreempt == InitProgram /\ [][NextPreempt]_vars


----------------------------------------------------------------------------
(* The whole program: main() looping over task_manager(), the test of PD2 *)
(* and go_sleep(); the pin, timer 2 and the ADC raising their interrupt   *)
(* flags; the three handlers served when the global interrupt flag        *)
(* allows.  The instruction after SEI executes before any pending         *)
(* interrupt is served.  In standby the clocks of timer 2 and of the ADC  *)
(* are stopped and the pin change interrupt alone wakes the CPU.          *)

MainIrqs == 160        \* runs of TIMER2_OVF_vect modelled
StartTicks == {0, FreqDelay}  \* the run begins after this many calls of update()

GoSleepPcs == {"gs_mode", "gs_cli", "gs_se", "gs_sei", "gs_sleep", "halted", "gs_disable"}

\* the task table after n calls of update(), 1 <= n <= 50, every marked run
\* dispatched: the first call marked slot 0 and reloaded its delay, the
\* others counted both delays down
TableAfter(n) ==
    [init_tasks EXCEPT ![0].delay = init_tasks[0].interval - (n - 1),
                       ![1].delay = init_tasks[1].delay - n]

\* main() entering its loop, or at the top of its loop after n ticks with
\* the conversion started at the first tick completed on the raw result r;
\* the button pressed or not
InitMain ==
    \E n \in StartTicks : \E r \in RawSamples : \E pin \in {0, 1} :
        /\ task_list = IF n = 0 THEN init_tasks ELSE TableAfter(n)
        /\ frequency_control = IF n = 0 THEN InitialFrequency ELSE FreqMap(Clamp(r))
        /\ OCR1A = frequency_control
        /\ conversion_result = IF n = 0 THEN 0 ELSE Clamp(r)
        /\ ADC = IF n = 0 THEN 0 ELSE r
        /\ ADSC = 0
        /\ tx = << >>
        /\ pc = "idle"
        /\ str = << >>
        /\ reg = 0
        /\ ticks = 0
        /\ sched_obs = SchedObsInit(init_tasks)
        /\ last_op = "init"
        /\ invoked = << >>
        /\ dispatched = FALSE
        /\ report_obs = ReportObsInit
        /\ McuInitAt(pin)

\* an interrupt can be served: I is set, and the CPU is not at the
\* instruction that follows SEI
Served == I_flag = 1 /\ pc # "gs_sleep"

\* the level of PD2 changes; PCINT18 is enabled in PCMSK2
PinChange ==
    /\ PD2' = 1 - PD2
    /\ PCIF' = 1
    /\ sleep_obs' = [sleep_obs EXCEPT
                        !.raised = @ \/ pc \in {"gs_se", "gs_sei", "gs_sleep"}]
    /\ UNCHANGED << task_list, frequency_control, OCR1A, conversion_result, ADC, ADSC,
                    tx, pc, str, reg, ticks, sched_obs, last_op, invoked, dispatched,
                    report_obs, overflows, I_flag, SMCR, TOV2, ADIF, tm_index, tick_obs >>

\* timer 2 overflows; its clock is stopped while the CPU is halted
Timer2Overflows ==
    /\ pc # "halted"
    /\ TOV2 = 0
    /\ tick_obs.irqs < MainIrqs
    /\ TOV2' = 1
    /\ UNCHANGED << task_list, frequency_control, OCR1A, conversion_result, ADC, ADSC,
                    tx, pc, str, reg, ticks, sched_obs, last_op, invoked, dispatched,
                    report_obs, overflows, I_flag, SMCR, PD2, PCIF, ADIF, tm_index,
                    tick_obs, sleep_obs >>

\* the conversion ends with a raw result; its clock is stopped while the CPU
\* is halted
ConversionEnds ==
    /\ pc # "halted"
    /\ ADSC = 1
    /\ \E r \in RawSamples : ADC' = r
    /\ ADSC' = 0
    /\ ADIF' = 1
    /\ UNCHANGED << task_list, frequency_control, OCR1A, conversion_result, tx, pc, str,
                    reg, ticks, sched_obs, last_op, invoked, dispatched, report_obs,
                    overflows, I_flag, SMCR, PD2, PCIF, TOV2, tm_index, tick_obs,
                    sleep_obs >>

\* ISR(PCINT2_vect), the empty handler; it resumes a halted CPU after SLEEP
Pcint2Vect ==
    /\ Served
    /\ PCIF = 1
    /\ PCIF' = 0
    /\ pc' = IF pc = "halted" THEN "gs_disable" ELSE pc
    /\ sleep_obs' = IF pc = "halted" THEN [sleep_obs EXCEPT !.woke_by = "PCINT2_vect"]
                    ELSE sleep_obs
    /\ last_op' = "PCINT2_vect"
    /\ UNCHANGED << task_list, frequency_control, OCR1A, conversion_result, ADC, ADSC,
                    tx, str, reg, ticks, sched_obs, invoked, dispatched, report_obs,
                    overflows, I_flag, SMCR, PD2, TOV2, ADIF, tm_index, tick_obs >>

\* ISR(TIMER2_OVF_vect) served; it has the lower priority
Timer2Served ==
    /\ Served
    /\ pc # "halted"
    /\ TOV2 = 1
    /\ PCIF = 0
    /\ TOV2' = 0
    /\ Timer2Vect
    /\ UNCHANGED << I_flag, SMCR, PD2, PCIF, ADIF, tm_index, sleep_obs >>

\* ISR(ADC_vect) served; it has the lowest priority
AdcVect ==
    /\ Served
    /\ pc # "halted"
    /\ ADIF = 1
    /\ PCIF = 0
    /\ TOV2 = 0
    /\ ADIF' = 0
    /\ conversion_result' = Clamp(ADC)
    /\ frequency_control' = FreqMap(Clamp(ADC))
    /\ OCR1A' = FreqMap(Clamp(ADC))
    /\ last_op' = "ADC_vect"
    /\ report_obs' = [report_obs EXCEPT !.adc_in_cur = TRUE]
    /\ UNCHANGED << task_list, ADC, ADSC, tx, pc, str, reg, ticks, sched_obs, invoked,
                    dispatched, overflows, I_flag, SMCR, PD2, PCIF, TOV2, tm_index,
                    tick_obs, sleep_obs >>


\* the frame of a step of main() or go_sleep() that touches the MCU only
MainFrame ==
    UNCHANGED << task_list, frequency_control, OCR1A, conversion_result, ADC, ADSC,
                 tx, str, reg, ticks, sched_obs, invoked, dispatched, report_obs,
                 overflows, PD2, PCIF, TOV2, ADIF, tm_index, tick_obs >>

\* a test of the pin that calls go_sleep() while the pin reads high
MainCheckInverted ==
    /\ pc = "tm_done"
    /\ pc' = IF PD2 # 0 THEN "gs_mode" ELSE "idle"
    /\ sleep_obs' = [sleep_obs EXCEPT !.read = PD2]
    /\ last_op' = "main"
    /\ UNCHANGED << I_flag, SMCR >>
    /\ MainFrame

\* if(!(PIND & (1<<PD2))) go_sleep();  after task_manager() has returned
MainCheck ==
    /\ pc = "tm_done"
    /\ pc' = IF PD2 = 0 THEN "gs_mode" ELSE "idle"
    /\ sleep_obs' = [sleep_obs EXCEPT !.read = PD2]
    /\ last_op' = "main"
    /\ UNCHANGED << I_flag, SMCR >>
    /\ MainFrame

\* set_sleep_mode(SLEEP_MODE_STANDBY);
GsMode ==
    /\ pc = "gs_mode"
    /\ SMCR' = [SMCR EXCEPT !.sm = "standby"]
    /\ pc' = "gs_cli"
    /\ last_op' = "go_sleep"
    /\ UNCHANGED << I_flag, sleep_obs >>
    /\ MainFrame

\* go_sleep() leaving the interrupts enabled
GsCliNot ==
    /\ pc = "gs_cli"
    /\ pc' = "gs_se"
    /\ sleep_obs' = [sleep_obs EXCEPT !.raised = FALSE]
    /\ last_op' = "go_sleep"
    /\ UNCHANGED << I_flag, SMCR >>
    /\ MainFrame

\* cli();
GsCli ==
    /\ pc = "gs_cli"
    /\ I_flag' = 0
    /\ pc' = "gs_se"
    /\ sleep_obs' = [sleep_obs EXCEPT !.raised = FALSE]
    /\ last_op' = "go_sleep"
    /\ UNCHANGED SMCR
    /\ MainFrame

\* sleep_enable();
GsSleepEnable ==
    /\ pc = "gs_se"
    /\ SMCR' = [SMCR EXCEPT !.se = 1]
    /\ pc' = "gs_sei"
    /\ last_op' = "go_sleep"
    /\ UNCHANGED << I_flag, sleep_obs >>
    /\ MainFrame

\* sei();
GsSei ==
    /\ pc = "gs_sei"
    /\ I_flag' = 1
    /\ pc' = "gs_sleep"
    /\ last_op' = "go_sleep"
    /\ UNCHANGED << SMCR, sleep_obs >>
    /\ MainFrame

\* sleep_cpu();  SLEEP halts the CPU when the sleep enable bit is set
GsSleepCpu ==
    /\ pc = "gs_sleep"
    /\ pc' = IF SMCR.se = 1 THEN "halted" ELSE "gs_disable"
    /\ sleep_obs' = [sleep_obs EXCEPT !.table = task_list, !.woke_by = "none"]
    /\ last_op' = "go_sleep"
    /\ UNCHANGED << I_flag, SMCR >>
    /\ MainFrame

\* a return from go_sleep() that leaves the sleep enable bit set
GsSleepDisableNot ==
    /\ pc = "gs_disable"
    /\ pc' = "idle"
    /\ last_op' = "go_sleep"
    /\ UNCHANGED << I_flag, SMCR, sleep_obs >>
    /\ MainFrame

\* sleep_disable();  and the return to the loop of main()
GsSleepDisable ==
    /\ pc = "gs_disable"
    /\ SMCR' = [SMCR EXCEPT !.se = 0]
    /\ pc' = "idle"
    /\ last_op' = "go_sleep"
    /\ UNCHANGED << I_flag, sleep_obs >>
    /\ MainFrame

Next ==
    \/ TmEnter
    \/ TmTest
    \/ TmLoad
    \/ TmStore
    \/ MainCheck
    \/ GsMode
    \/ GsCli
    \/ GsSleepEnable
    \/ GsSei
    \/ GsSleepCpu
    \/ GsSleepDisable
    \/ PinChange
    \/ Timer2Overflows
    \/ ConversionEnds
    \/ Pcint2Vect
    \/ Timer2Served
    \/ AdcVect

Spec == InitMain /\ [][Next]_vars


\* the hardware serves a pending enabled interrupt, and the main program
\* runs on when it is not halted
FairSpec == Spec /\ WF_vars(Pcint2Vect) /\ WF_vars(GsSleepDisable)

----------------------------------------------------------------------------
(* Claims about the conversion completion handler *)

\* C1: for every raw value r in 0..1023 delivered to ISR(ADC_vect), the value
\* the handler stores equals the exact integer
\* 124 + floor(2375 * clamp(r,50,1000) / 1000), and the same value is in
\* frequency_control and in OCR1A (r=0: 242, r=500: 1311, r=1023: 2499).
C1_ExactMapping ==
    last_op = "ADC_vect" =>
        /\ frequency_control =
              124 + ((2375 * (IF ADC < 50 THEN 50 ELSE IF ADC > 1000 THEN 1000 ELSE ADC))
                     \div 1000)
        /\ OCR1A = frequency_control
        /\ (ADC = 0 => frequency_control = 242)
        /\ (ADC = 500 => frequency_control = 1311)
        /\ (ADC = 1023 => frequency_control = 2499)

\* C2: in every reachable state frequency_control lies in [124, 2499].
C2_FrequencyInRange == frequency_control \in 124 .. 2499

\* C2's case: the handler has stored the value for the largest raw result
C2_Witness ==
    /\ last_op = "ADC_vect"
    /\ ADC = AdcTop
    /\ frequency_control # InitialFrequency

----------------------------------------------------------------------------
(* Claims about the scheduler *)

Occupied(s) == task_list[s].task_number # 0

\* the run started from the table of init_tasks()
Configured ==
    \A s \in Slots :
        /\ task_list[s].task_number = init_tasks[s].task_number
        /\ task_list[s].interval = init_tasks[s].interval
        /\ sched_obs[s].d0 = init_tasks[s].delay

\* C3: for a task with interval k > 0, with the dispatcher draining run to
\* zero between ticks, consecutive markings by update() are exactly k calls
\* of update() apart (100 for both tasks of the configured table).
C3_MarkedEveryInterval ==
    \A s \in Slots :
        (Occupied(s) /\ task_list[s].interval > 0 /\ sched_obs[s].drained
         /\ sched_obs[s].marks >= 2)
            => sched_obs[s].gap = task_list[s].interval

\* C4: a task registered with initial delay d >= 0 is first marked by
\* exactly the (d+1)-th call of update(), and by no earlier call.
C4_FirstRunAfterDelay ==
    \A s \in Slots :
        Occupied(s) =>
            /\ (sched_obs[s].marks = 0 <=> ticks <= sched_obs[s].d0)
            /\ (sched_obs[s].marks > 0 => sched_obs[s].first = sched_obs[s].d0 + 1)

\* C4's case: the configured table, ADC task first marked by tick 1 and
\* reporting task by tick 51
C4_Witness ==
    /\ Configured
    /\ sched_obs[0].marks > 0 /\ sched_obs[0].first = 1
    /\ sched_obs[1].marks > 0 /\ sched_obs[1].first = 51

\* C5: a one-shot task (interval 0) is marked exactly once over any sequence
\* of update() calls.
C5_OneShotOnce ==
    \A s \in Slots :
        (Occupied(s) /\ task_list[s].interval = 0) => sched_obs[s].marks <= 1

\* C6: one pass of task_manager() visits the slots in index order and, for
\* every occupied slot with run > 0, calls the body of its task number once
\* and takes 1 off run; the other slots get no call and do not change.
C6_PassEffect ==
    [][ last_op' = "task_manager" =>
          /\ \A s \in Slots :
                IF Occupied(s) /\ task_list[s].run > 0
                THEN /\ task_list'[s] = [task_list[s] EXCEPT !.run = @ - 1]
                     /\ CallsOf(invoked', s) = 1
                ELSE /\ task_list'[s] = task_list[s]
                     /\ CallsOf(invoked', s) = 0
          /\ \A i \in 1 .. Len(invoked') :
                /\ invoked'[i].task = task_list[invoked'[i].slot].task_number
                /\ \A j \in 1 .. Len(invoked') : i < j => invoked'[i].slot < invoked'[j].slot
          /\ IF \E i \in 1 .. Len(invoked') : invoked'[i].task = ADC_TASK
             THEN ADSC' = 1 ELSE ADSC' = ADSC
          /\ IF \E i \in 1 .. Len(invoked') : invoked'[i].task = FREQ_TASK
             THEN Len(tx') > Len(msg) + Len(end_msg)
             ELSE tx' = tx /\ conversion_result' = conversion_result
      ]_vars

\* C6's case: a pass that found both slots runnable, one of them owed more
\* than one run
C6_Witness ==
    /\ last_op = "task_manager"
    /\ Len(invoked) = 2
    /\ \E s \in Slots : task_list[s].run > 0

C8_RunsAccumulate ==
    \A s \in Slots :
        Occupied(s) =>
            /\ task_list[s].run = sched_obs[s].marks - sched_obs[s].bodies
            /\ (~dispatched => task_list[s].run = sched_obs[s].marks)

----------------------------------------------------------------------------
(* Claims about the reporting task *)

\* the decimal numeral of v, most significant digit first, as ASCII codes
RECURSIVE Decimal(_)
Decimal(v) == IF v < 10 THEN << 48 + v >> ELSE Append(Decimal(v \div 10), 48 + (v % 10))

\* a report has just returned, and ADC_vect did not run during it
QuietReportDone ==
    /\ pc = "idle"
    /\ last_op = "task_2"
    /\ ~report_obs.adc_in_cur

\* C9: two consecutive reports with no ADC completion between them (so with
\* frequency_control unchanged) send the same characters.
C9_ReportIdempotent ==
    (QuietReportDone /\ report_obs.prev_tx # << >> /\ ~report_obs.adc_in_prev)
        => tx = report_obs.prev_tx

\* C10 as claimed: a report sends "Frequency is ", the decimal digits of the
\* current value of frequency_control, then " Hz" CR LF.
C10_ReportsFrequencyControl ==
    QuietReportDone => tx = msg \o Decimal(frequency_control) \o end_msg

\* C10 as amended: a report during which ADC_vect does not run sends
\* "Frequency is ", the decimal digits, most significant first, of the value
\* conversion_result had when the report began, which is the clamped sample
\* last stored by the handler or 0 when none was stored since the start or
\* since the report before, then " Hz" CR LF.
C10_ReportsConversionResult ==
    QuietReportDone =>
        /\ tx = msg \o Decimal(report_obs.entry) \o end_msg
        /\ report_obs.entry \in {0, Clamp(ADC)}

\* C10's case: a report of a stored sample of several digits
C10_Witness ==
    /\ QuietReportDone
    /\ report_obs.entry = 500
    /\ frequency_control # 500

\* the characters a finished report sent between the prefix and the suffix
SentDigits == SubSeq(tx, Len(msg) + 1, Len(tx) - Len(end_msg))

\* the number a string of decimal digits denotes
RECURSIVE ParseDecimal(_)
ParseDecimal(s) ==
    IF s = << >> THEN 0
    ELSE 10 * ParseDecimal(SubSeq(s, 1, Len(s) - 1)) + (s[Len(s)] - 48)

\* C15: for every value V in 124..2499 an uninterrupted report of V sends
\* between prefix and suffix a string of decimal digits that has no leading
\* zero and parses back to V.
C15_FormatRoundTrip ==
    (QuietReportDone /\ report_obs.entry \in DestMin .. DestMax) =>
        /\ tx = msg \o SentDigits \o end_msg
        /\ \A i \in 1 .. Len(SentDigits) : SentDigits[i] \in 48 .. 57
        /\ SentDigits[1] # 48
        /\ ParseDecimal(SentDigits) = report_obs.entry

\* C15's case: a report of a value whose digits differ and end in zero
C15_Witness ==
    /\ QuietReportDone
    /\ report_obs.entry = 2490
    /\ SentDigits = << 50, 52, 57, 48 >>

\* a report has just returned
ReportDone == pc = "idle" /\ last_op = "task_2"

\* C17: ADC_vect can run inside the digit loop of task_2() and make it send
\* digits that are the decimal rendering of no value conversion_result held
\* (the state of C17_Witness); a report always sends between 1 and 9 decimal
\* digits, and they differ from the rendering of the value on entry only when
\* ADC_vect ran during the report.
C17_RaceMixesDigits ==
    ReportDone =>
        /\ Len(SentDigits) \in 1 .. 9
        /\ \A i \in 1 .. Len(SentDigits) : SentDigits[i] \in 48 .. 57
        /\ (SentDigits # Decimal(report_obs.entry)) => report_obs.adc_in_cur

\* C17's case: ADC_vect ran during the report, and what was sent renders no
\* value the 10-bit conversion result or its quotients can be
C17_Witness ==
    /\ ReportDone
    /\ report_obs.adc_in_cur
    /\ \A v \in 0 .. AdcTop : SentDigits # Decimal(v)

\* C20: when task_2() returns and ADC_vect did not run during it,
\* conversion_result is 0 whatever it was on entry; a conversion_result of 0
\* is next changed by ADC_vect only, to a value in 50..1000.
C20_ReportZeroesResult ==
    /\ [](QuietReportDone => conversion_result = 0)
    /\ [][(conversion_result = 0 /\ conversion_result' # 0) =>
            (last_op' = "ADC_vect" /\ conversion_result' \in SrcMin .. SrcMax)]_vars

\* C20's case: a report entered with the largest stored sample has returned
C20_Witness ==
    /\ QuietReportDone
    /\ report_obs.entry = SrcMax
    /\ conversion_result = 0
    /\ frequency_control # InitialFrequency

----------------------------------------------------------------------------
(* Claims about the tick generator *)

\* C16: consecutive calls of update() are exactly OVF_MAX = 156 overflow
\* interrupts apart, the overflow counter is 0 on exit from every interrupt
\* that called update(), and it never exceeds OVF_MAX on exit from any.
C16_TickEvery156 ==
    /\ tick_obs.gap \in {0, OVF_MAX}
    /\ tick_obs.called => overflows = 0
    /\ overflows <= OVF_MAX

\* C18: whenever the main loop is between two passes of task_manager(), for
\* every occupied slot the increments update() made to run equal the bodies
\* invoked for the slot plus the current run, a tick between the read of run
\* and the write of run - 1 included.
C18_NoRunLost ==
    pc = "idle" =>
        \A s \in Slots : Occupied(s) =>
            sched_obs[s].marks = sched_obs[s].bodies + task_list[s].run

----------------------------------------------------------------------------
(* Claims about the task table *)

\* C19: in every state after init_tasks(), for each slot task_number and
\* interval never change, run >= 0 and 0 <= delay <= max(initial delay,
\* interval); the configured table has (ADC_TASK, interval 100) in slot 0 and
\* (FREQ_TASK, interval 100) in slot 1, and starts with run 0 in both slots
\* and delays 0 and 50.
C19_TableWellFormed ==
    /\ [](\A s \in Slots :
            /\ task_list[s].run >= 0
            /\ task_list[s].delay >= 0
            /\ task_list[s].delay <= MaxOf({sched_obs[s].d0, task_list[s].interval}))
    /\ [][\A s \in Slots :
            /\ task_list'[s].task_number = task_list[s].task_number
            /\ task_list'[s].interval = task_list[s].interval]_vars
    /\ [](Configured =>
            /\ task_list[0].task_number = ADC_TASK /\ task_list[0].interval = 100
            /\ task_list[1].task_number = FREQ_TASK /\ task_list[1].interval = 100
            /\ sched_obs[0].d0 = 0 /\ sched_obs[1].d0 = 50
            /\ (last_op = "init" => task_list[0].run = 0 /\ task_list[1].run = 0))

----------------------------------------------------------------------------
(* Claims about the main loop and go_sleep() *)

\* C11: main() calls go_sleep() exactly when the test of PD2 that follows a
\* completed pass of task_manager() reads the pin low: go_sleep() is entered
\* from that test only, the test enters it if and only if the pin is low, and
\* while go_sleep() runs the last level read is low, the loop of
\* task_manager() has run out and no report is under way.
C11_SleepOnLowPinOnly ==
    /\ [][(pc' = "gs_mode" /\ pc # "gs_mode") => (pc = "tm_done" /\ PD2 = 0)]_vars
    /\ [][(pc = "tm_done" /\ pc' # "tm_done") =>
            /\ sleep_obs'.read = PD2
            /\ (PD2 = 0 => pc' = "gs_mode")
            /\ (PD2 # 0 => pc' = "idle")]_vars
    /\ [](pc \in GoSleepPcs =>
            /\ sleep_obs.read = 0
            /\ tm_index = TASK_MAX
            /\ str = << >>)

\* C11's case: the CPU halted after a pass that sent a report
C11_Witness ==
    /\ pc = "halted"
    /\ sleep_obs.read = 0
    /\ tx # << >>
    /\ dispatched

\* C12: a pin change raised after cli() of go_sleep() and before SLEEP
\* executes is still pending, with interrupts enabled, when the CPU halts, so
\* the halt ends on that event and go_sleep() returns to the loop of main().
C12_NoLostWake ==
    /\ []((pc = "halted" /\ sleep_obs.raised) => (PCIF = 1 /\ I_flag = 1))
    /\ ((pc = "halted" /\ sleep_obs.raised) ~> (pc = "idle" /\ last_op = "go_sleep"))

\* C12's case: the CPU has halted with a pin change raised in the window
C12_Witness ==
    /\ pc = "halted"
    /\ sleep_obs.raised
    /\ PCIF = 1

\* C13 as claimed: from the halt until go_sleep() has returned every field of
\* every slot of the task table is unchanged; the sleep enable bit is clear
\* when go_sleep() returns; the halt ends through PCINT2_vect only.
C13_SleepPreservesTable ==
    /\ [](pc \in {"halted", "gs_disable"} => task_list = sleep_obs.table)
    /\ [][(pc = "gs_disable" /\ pc' = "idle") =>
            (task_list' = sleep_obs.table /\ SMCR'.se = 0)]_vars
    /\ [][(pc = "halted" /\ pc' # "halted") => last_op' = "PCINT2_vect"]_vars

\* C13 as amended: while the CPU is halted every field of every slot of the
\* task table is unchanged, and no step of go_sleep() writes the table: in
\* go_sleep() the table changes only by update() in a tick handler served
\* while the CPU runs, between the wake-up and the return included; the
\* sleep enable bit is clear when go_sleep() returns; the halt ends through
\* PCINT2_vect only.
C13_HaltPreservesTable ==
    /\ [](pc = "halted" => task_list = sleep_obs.table)
    /\ [][(pc \in GoSleepPcs /\ task_list' # task_list) =>
            (last_op' = "update" /\ pc # "halted" /\ pc' = pc)]_vars
    /\ [][(pc = "gs_disable" /\ pc' = "idle") => SMCR'.se = 0]_vars
    /\ [][(pc = "halted" /\ pc' # "halted") => last_op' = "PCINT2_vect"]_vars

\* C13's case: go_sleep() has returned after a halt that PCINT2_vect ended,
\* with a table that ticks and dispatches had changed before
C13_Witness ==
    /\ pc = "idle"
    /\ last_op = "go_sleep"
    /\ sleep_obs.woke_by = "PCINT2_vect"
    /\ task_list = sleep_obs.table
    /\ task_list # init_tasks
    /\ SMCR.se = 0

\* C14: frequency_control is written by ADC_vect only: every step of
\* update(), task_manager(), task_1(), task_2(), go_sleep(), main() and the
\* timer and pin change handlers leaves it unchanged.
C14_SingleWriter ==
    [][frequency_control' # frequency_control => last_op' = "ADC_vect"]_vars

\* C14's case: the handler has written frequency_control, and a report and a
\* sleep have passed since the start
C14_Witness ==
    /\ frequency_control = FreqMap(SrcMax)
    /\ last_op # "ADC_vect"
    /\ tx # << >>
    /\ sleep_obs.woke_by = "PCINT2_vect"
    /\ ticks > 0

====
